---- MODULE Spec2Model ----
(***************************************************************************)
(* TPM TIS over SPI: the command-framing decoder of hw/tpm/tpm_tis_spi.c.  *)
(*                                                                         *)
(* The decoder is the per-byte callback tpm_tis_spi_transfer8 plus the     *)
(* device reset hook tpm_tis_spi_reset.  Its state is the tail of struct   *)
(* TPMStateSpi: spi_state, first_byte, addr, data, data_idx, addr_idx.     *)
(*                                                                         *)
(* Reading of the source.  The switch at line 58 tests `s->state` and the  *)
(* cases assign `tts->state`; the only state field the struct has is       *)
(* spi_state, and that is the field modelled.  The bit-field is declared   *)
(* data__expected_size and used as data_expected_size; they are the same   *)
(* field.                                                                  *)
(*                                                                         *)
(* ABI.  The unions overlay bytes on integers and bit-fields, so what the  *)
(* code computes depends on the host ABI.  The model is the little-endian  *)
(* LP64 ABI (x86-64, aarch64): bit-fields are allocated from bit 0 up,     *)
(* bytes[0] is the least significant byte, hwaddr is 8 bytes, and the      *)
(* struct tail is laid out as addr @0, data @8, data_idx @12, addr_idx     *)
(* @13, padding @14..15, end of object @16.                                *)
(*                                                                         *)
(* Undefined behaviour.  `bytes[--idx] = tx` with idx - 1 past the end of  *)
(* the array is a store outside the array.  Its outcomes are modelled as:  *)
(* inside the object, the store lands on the member at that offset (and,   *)
(* when that member is the index being decremented, either of the two      *)
(* unsequenced side effects may be the last one); outside the object, the  *)
(* store either lands in foreign memory or the process faults.             *)
(***************************************************************************)
EXTENDS Integers, Naturals, Sequences, FiniteSets, TLC

VARIABLES
    spi_state,   \* TPMStateSpi.spi_state
    first_byte,  \* TPMStateSpi.first_byte.byte
    addr,        \* TPMStateSpi.addr.bytes, [0..7 -> 0..255]
    data,        \* TPMStateSpi.data.bytes, [0..3 -> 0..255]
    data_idx,    \* TPMStateSpi.data_idx
    addr_idx,    \* TPMStateSpi.addr_idx
    crashed,     \* the process faulted on a store outside the object
    r,           \* value returned by the latest tpm_tis_spi_transfer8 call
    acc,         \* collaborator call made by the latest operation
    st,          \* buffer store made by the latest operation
    hdr,         \* history: byte taken as header of the current transaction
    tb,          \* history: the (up to 3) bytes passed in after that header
    tcount,      \* history: transfer calls of the current transaction
    tacc,        \* history: collaborator calls of the current transaction
    nacc,        \* history: collaborator calls since the latest reset
    last_op,     \* history: "init", "transfer" or "reset"
    db,          \* history: the declared (up to 4) data bytes passed in after tb
    resets,      \* history: resets since the latest transfer call
    mode,        \* NetI2C.mode
    data_buf,    \* NetI2C.data_buf, [0..DataBufLen-1 -> 0..255]
    data_len,    \* NetI2C.data_len
    exited,      \* the process ended in exit(1) or in a failed assert
    pkt,         \* qemu_send_packet call made by the latest relay operation
    rcv,         \* the latest relay operation called qemu_receive_packet
    accepted,    \* history: bytes net_i2c_send stored since the relay left idle
    nsent,       \* history: packets sent since the relay left idle
    rop          \* history: the latest relay operation and the state it met

decoder == <<spi_state, first_byte, addr, data, data_idx, addr_idx>>
tpm == <<spi_state, first_byte, addr, data, data_idx, addr_idx, crashed,
         r, acc, st, hdr, tb, tcount, tacc, nacc, last_op, db, resets>>
relay == <<mode, data_buf, data_len, exited, pkt, rcv, accepted, nsent, rop>>
vars == <<spi_state, first_byte, addr, data, data_idx, addr_idx, crashed,
          r, acc, st, hdr, tb, tcount, tacc, nacc, last_op, db, resets,
          mode, data_buf, data_len, exited, pkt, rcv, accepted, nsent, rop>>

(***************************************************************************)
(* Bounds of the model.                                                    *)
(***************************************************************************)
\* transfer calls followed inside one transaction
MaxTxnBytes == 70
\* collaborator calls followed between two resets
MaxAccesses == 2
\* resets followed between two transfer calls
MaxResets == 2
\* sizeof(data_buf) of NetI2C (hw/i2c/net_i2c.h): the relay's buffer, in bytes
DataBufLen == 3

\* Bytes the bus presents while the decoder is in STATE_IDLE: writes of
\* size 0, 1, 4 and 40, reads of size 2 and 6.
HeaderBytes == {0, 1, 130, 4, 134, 40}
\* Bytes the bus presents while the decoder is in STATE_ADDRESS.
AddrBytes == {1, 2}
\* Bytes the bus presents while the decoder is in STATE_DATA.
DataBytes == {0, 4}
\* Values the register file returns to a read.
RegValues == {90, 4660}

\* The same with every header byte and one address and data byte.
AllHeaderBytes == 0..255
OneAddrByte == {1}
OneDataByte == {0}

\* Headers of size 6 (a write and a read) met with data bytes of value 5.
OverrunHeaderBytes == {6, 134}
OverrunDataBytes == {5}

\* Bytes the I2C master writes to the relay.
SendBytes == {7, 9}

(***************************************************************************)
(* Program constants.                                                      *)
(***************************************************************************)
STATE_IDLE == 0
STATE_ADDRESS == 1
STATE_DATA == 2

\* sizeof(hwaddr): the length of addr.bytes
AddrBytesLen == 8
\* sizeof(uint32_t): the length of data.bytes
DataBytesLen == 4
\* offsets of the members from the start of addr
OffAddr == 0
OffData == 8
OffDataIdx == 12
OffAddrIdx == 13
\* first offset past the object (sizeof(TPMStateSpi) - offsetof(addr))
OffEnd == 16

(***************************************************************************)
(* union TpmTisRWSizeByte: the header byte and its bit-fields.             *)
(***************************************************************************)
data_expected_size(b) == b % 64

resv(b) == (b \div 64) % 2

\* rwflag taken from the bit below the top one
rwflag_bit6(b) == (b \div 64) % 2

rwflag(b) == (b \div 128) % 2

(***************************************************************************)
(* union TpmTisSpiHwAddr: addr.addr read through addr.bytes.  The value is *)
(* 64 bits wide; it is below 2^24 exactly when bytes 3..7 are zero, and    *)
(* then equals the little-endian value of bytes 0..2.                      *)
(***************************************************************************)
AddrLow24(a) == a[0] + 256 * a[1] + 65536 * a[2]

AddrHighZero(a) == \A i \in 3..(AddrBytesLen - 1) : a[i] = 0

ZeroAddr == [i \in 0..(AddrBytesLen - 1) |-> 0]

ZeroData == [i \in 0..(DataBytesLen - 1) |-> 0]

(***************************************************************************)
(* The collaborator calls and the stores, as records.                      *)
(***************************************************************************)
NoAccess == [kind |-> "none", addr |-> ZeroAddr, value |-> ZeroData, size |-> 0]

NoStore == [buf |-> "none", idx |-> 0]

\* tpm_tis_mmio_read(tts, addr, size): any register value of that width
ReadValues(size) ==
    IF size = 0 THEN {0}
    ELSE IF size >= DataBytesLen THEN RegValues
    ELSE {v \in RegValues : v < 256 ^ size}

(***************************************************************************)
(* Stores through bytes[--idx].                                            *)
(***************************************************************************)
Members == [addr |-> addr, data |-> data, data_idx |-> data_idx,
            addr_idx |-> addr_idx]

\* the store of byte v at offset off of the object
StoreAt(m, off, v) ==
    IF off < OffData THEN [m EXCEPT !.addr[off - OffAddr] = v]
    ELSE IF off < OffDataIdx THEN [m EXCEPT !.data[off - OffData] = v]
    ELSE IF off = OffDataIdx THEN [m EXCEPT !.data_idx = v]
    ELSE IF off = OffAddrIdx THEN [m EXCEPT !.addr_idx = v]
    ELSE m

\* outcomes of `bytes[--idx] = v`: m is the object after the decrement,
\* off the offset stored to, self the offset of idx itself
StoreOutcomes(m, off, v, self) ==
    IF off >= OffEnd
    THEN {[m |-> m, crash |-> FALSE], [m |-> m, crash |-> TRUE]}
    ELSE IF off = self
    THEN {[m |-> StoreAt(m, off, v), crash |-> FALSE], [m |-> m, crash |-> FALSE]}
    ELSE {[m |-> StoreAt(m, off, v), crash |-> FALSE]}

SetMembers(m) ==
    /\ addr' = m.addr
    /\ data' = m.data
    /\ data_idx' = m.data_idx
    /\ addr_idx' = m.addr_idx

\* how many of the bytes after the address the history db keeps: the
\* declared data bytes of a transaction that declares no more than fit
DeclaredData(h) ==
    IF data_expected_size(h) <= DataBytesLen THEN data_expected_size(h) ELSE 0

(***************************************************************************)
(* The bus-to-network relay net_i2c.  DEBUG_NET_I2C is defined, so BADF    *)
(* prints and calls exit(1): the statements that follow a BADF are never   *)
(* executed.  The instance is zeroed when it is made and the type has no   *)
(* instance_init, so mode is NET_I2C_IDLE (0) and data_len is 0.           *)
(***************************************************************************)
NET_I2C_IDLE == 0
NET_I2C_WRITE_DATA == 1
NET_I2C_READ_DATA == 2
NET_I2C_DONE == 3
NET_I2C_CONFUSED == -1

\* enum i2c_event, the four events net_i2c_event has a case for
I2CEvents == {"I2C_START_SEND", "I2C_START_RECV", "I2C_FINISH", "I2C_NACK"}

ZeroBuf == [i \in 0..(DataBufLen - 1) |-> 0]

NoPacket == [sent |-> FALSE, bytes |-> <<>>]

\* data_buf[0 .. n-1] as a sequence
BufPrefix(b, n) == [i \in 1..n |-> b[i - 1]]

\* qemu_send_packet(netdev, buf, len): the size sent, len or, when the
\* peer takes nothing, 0
qemu_send_packet(len) == {len, 0}

\* qemu_receive_packet(netdev, &ret, 1): the size delivered, 1 or 0
qemu_receive_packet == {1, 0}

NetI2CInit ==
    /\ mode = NET_I2C_IDLE
    /\ data_buf = ZeroBuf
    /\ data_len = 0
    /\ exited = FALSE
    /\ pkt = NoPacket
    /\ rcv = FALSE
    /\ accepted = <<>>
    /\ nsent = 0
    /\ rop = [op |-> "init", ev |-> "", from |-> NET_I2C_IDLE, len |-> 0]

\* BADF(...): exit(1)
BADF == exited' = TRUE

\* net_i2c_do_write: the packet is data_buf[0 .. data_len-1]; the assert
\* fails when the size sent is not data_len
net_i2c_do_write ==
    /\ pkt' = [sent |-> TRUE, bytes |-> BufPrefix(data_buf, data_len)]
    /\ nsent' = nsent + 1
    /\ \E size \in qemu_send_packet(data_len) : exited' = (size # data_len)

(***************************************************************************)
(* tpm_tis_spi_initfn on the zeroed instance.                              *)
(***************************************************************************)
Init ==
    /\ spi_state = STATE_IDLE
    /\ first_byte = 0
    /\ addr = ZeroAddr
    /\ data = ZeroData
    /\ data_idx = 0
    /\ addr_idx = 3
    /\ crashed = FALSE
    /\ r = 0
    /\ acc = NoAccess
    /\ st = NoStore
    /\ hdr = 0
    /\ tb = <<>>
    /\ tcount = 0
    /\ tacc = 0
    /\ nacc = 0
    /\ last_op = "init"
    /\ db = <<>>
    /\ resets = 0
    /\ NetI2CInit

\* case STATE_ADDRESS storing the byte through first_byte as well
TransferAddress_clobber(tx) ==
    /\ spi_state = STATE_ADDRESS
    /\ IF addr_idx = 0
       THEN /\ spi_state' = STATE_DATA
            /\ st' = NoStore
            /\ UNCHANGED <<addr, data, data_idx, addr_idx, crashed>>
       ELSE \E o \in StoreOutcomes([Members EXCEPT !.addr_idx = addr_idx - 1],
                                   OffAddr + (addr_idx - 1), tx, OffAddrIdx) :
                /\ SetMembers(o.m)
                /\ crashed' = o.crash
                /\ st' = [buf |-> "addr", idx |-> addr_idx - 1]
                /\ UNCHANGED spi_state
    /\ first_byte' = tx
    /\ r' = 0
    /\ acc' = NoAccess
    /\ tb' = IF Len(tb) < 3 THEN Append(tb, tx) ELSE tb
    /\ db' = IF Len(tb) = 3 /\ Len(db) < DeclaredData(hdr)
             THEN Append(db, tx) ELSE db
    /\ resets' = 0
    /\ tcount' = tcount + 1
    /\ last_op' = "transfer"
    /\ UNCHANGED <<hdr, tacc, nacc>>

(***************************************************************************)
(* tpm_tis_spi_transfer8, case STATE_ADDRESS.                              *)
(***************************************************************************)
TransferAddress(tx) ==
    /\ spi_state = STATE_ADDRESS
    /\ IF addr_idx = 0
       THEN /\ spi_state' = STATE_DATA
            /\ st' = NoStore
            /\ UNCHANGED <<addr, data, data_idx, addr_idx, crashed>>
       ELSE \E o \in StoreOutcomes([Members EXCEPT !.addr_idx = addr_idx - 1],
                                   OffAddr + (addr_idx - 1), tx, OffAddrIdx) :
                /\ SetMembers(o.m)
                /\ crashed' = o.crash
                /\ st' = [buf |-> "addr", idx |-> addr_idx - 1]
                /\ UNCHANGED spi_state
    /\ r' = 0
    /\ acc' = NoAccess
    /\ tb' = IF Len(tb) < 3 THEN Append(tb, tx) ELSE tb
    /\ db' = IF Len(tb) = 3 /\ Len(db) < DeclaredData(hdr)
             THEN Append(db, tx) ELSE db
    /\ resets' = 0
    /\ tcount' = tcount + 1
    /\ last_op' = "transfer"
    /\ UNCHANGED <<first_byte, hdr, tacc, nacc>>

(***************************************************************************)
(* tpm_tis_spi_transfer8, case STATE_DATA.                                 *)
(***************************************************************************)
TransferData(tx) ==
    /\ spi_state = STATE_DATA
    /\ IF data_idx = 0
       THEN /\ IF rwflag(first_byte) = 1
               THEN \E v \in ReadValues(data_expected_size(first_byte)) :
                        /\ r' = v
                        /\ acc' = [kind |-> "read", addr |-> addr,
                                   value |-> ZeroData,
                                   size |-> data_expected_size(first_byte)]
               ELSE /\ r' = 0
                    /\ acc' = [kind |-> "write", addr |-> addr,
                               value |-> data,
                               size |-> data_expected_size(first_byte)]
            /\ spi_state' = STATE_IDLE
            /\ st' = NoStore
            /\ tacc' = tacc + 1
            /\ nacc' = nacc + 1
            /\ UNCHANGED <<addr, data, data_idx, addr_idx, crashed>>
       ELSE /\ \E o \in StoreOutcomes([Members EXCEPT !.data_idx = data_idx - 1],
                                      OffData + (data_idx - 1), tx, OffDataIdx) :
                /\ SetMembers(o.m)
                /\ crashed' = o.crash
            /\ st' = [buf |-> "data", idx |-> data_idx - 1]
            /\ r' = 0
            /\ acc' = NoAccess
            /\ UNCHANGED <<spi_state, tacc, nacc>>
    /\ tb' = IF Len(tb) < 3 THEN Append(tb, tx) ELSE tb
    /\ db' = IF Len(tb) = 3 /\ Len(db) < DeclaredData(hdr)
             THEN Append(db, tx) ELSE db
    /\ resets' = 0
    /\ tcount' = tcount + 1
    /\ last_op' = "transfer"
    /\ UNCHANGED <<first_byte, hdr>>

(***************************************************************************)
(* tpm_tis_spi_transfer8, case STATE_IDLE and the default case (the same   *)
(* three statements).                                                      *)
(***************************************************************************)
TransferIdle(tx) ==
    /\ spi_state \notin {STATE_ADDRESS, STATE_DATA}
    /\ first_byte' = tx
    /\ data_idx' = data_expected_size(tx)
    /\ spi_state' = STATE_ADDRESS
    /\ r' = 0
    /\ acc' = NoAccess
    /\ st' = NoStore
    /\ hdr' = tx
    /\ tb' = <<>>
    /\ db' = <<>>
    /\ resets' = 0
    /\ tcount' = 1
    /\ tacc' = 0
    /\ last_op' = "transfer"
    /\ UNCHANGED <<addr, data, addr_idx, crashed, nacc>>

\* the bytes the bus presents in each decoder state
TxBytes(s) ==
    IF s = STATE_ADDRESS THEN AddrBytes
    ELSE IF s = STATE_DATA THEN DataBytes
    ELSE HeaderBytes

TxBytesAllHeaders(s) ==
    IF s = STATE_ADDRESS THEN OneAddrByte
    ELSE IF s = STATE_DATA THEN OneDataByte
    ELSE AllHeaderBytes

tpm_tis_spi_transfer8(tx) ==
    /\ ~crashed
    /\ nacc < MaxAccesses
    /\ spi_state \in {STATE_ADDRESS, STATE_DATA} => tcount < MaxTxnBytes
    /\ \/ TransferAddress(tx)
       \/ TransferData(tx)
       \/ TransferIdle(tx)
    /\ UNCHANGED relay

Transfer ==
    \E tx \in TxBytes(spi_state) : tpm_tis_spi_transfer8(tx)

TransferAllHeaders ==
    \E tx \in TxBytesAllHeaders(spi_state) : tpm_tis_spi_transfer8(tx)

\* a reset that completes a pending transaction: in STATE_DATA it writes
\* the data gathered so far and goes to STATE_IDLE
tpm_tis_spi_reset_flush ==
    /\ ~crashed
    /\ resets < MaxResets
    /\ IF spi_state = STATE_DATA
       THEN /\ acc' = [kind |-> "write", addr |-> addr, value |-> data,
                       size |-> data_expected_size(first_byte)]
            /\ spi_state' = STATE_IDLE
       ELSE /\ acc' = NoAccess
            /\ UNCHANGED spi_state
    /\ st' = NoStore
    /\ nacc' = 0
    /\ last_op' = "reset"
    /\ resets' = resets + 1
    /\ UNCHANGED <<first_byte, addr, data, data_idx, addr_idx,
                   crashed, r, hdr, tb, db, tcount, tacc>>
    /\ UNCHANGED relay

(***************************************************************************)
(* tpm_tis_spi_reset: resets the TPMState register file (tpm_tis_reset)    *)
(* and assigns no member of the decoder.                                   *)
(***************************************************************************)
tpm_tis_spi_reset ==
    /\ ~crashed
    /\ resets < MaxResets
    /\ acc' = NoAccess
    /\ st' = NoStore
    /\ nacc' = 0
    /\ last_op' = "reset"
    /\ resets' = resets + 1
    /\ UNCHANGED <<spi_state, first_byte, addr, data, data_idx, addr_idx,
                   crashed, r, hdr, tb, db, tcount, tacc>>
    /\ UNCHANGED relay

Next ==
    \/ Transfer
    \/ tpm_tis_spi_reset

Spec == Init /\ [][Next]_vars

NextAllHeaders ==
    \/ TransferAllHeaders
    \/ tpm_tis_spi_reset

SpecAllHeaders == Init /\ [][NextAllHeaders]_vars

\* the bytes of a bus that answers a 6-byte header with bytes of value 5
TxBytesOverrun(s) ==
    IF s = STATE_ADDRESS THEN OneAddrByte
    ELSE IF s = STATE_DATA THEN OverrunDataBytes
    ELSE OverrunHeaderBytes

TransferOverrun ==
    \E tx \in TxBytesOverrun(spi_state) : tpm_tis_spi_transfer8(tx)

NextOverrun ==
    \/ TransferOverrun
    \/ tpm_tis_spi_reset

SpecOverrun == Init /\ [][NextOverrun]_vars

(***************************************************************************)
(* net_i2c_event.                                                          *)
(***************************************************************************)
\* case I2C_START_SEND
EventStartSend ==
    /\ IF mode = NET_I2C_IDLE
       THEN /\ mode' = NET_I2C_WRITE_DATA
            /\ accepted' = <<>>
            /\ nsent' = 0
            /\ UNCHANGED exited
       ELSE /\ BADF
            /\ UNCHANGED <<mode, accepted, nsent>>
    /\ pkt' = NoPacket
    /\ UNCHANGED <<data_buf, data_len>>

\* case I2C_START_RECV
EventStartRecv ==
    /\ IF mode = NET_I2C_IDLE
       THEN /\ mode' = NET_I2C_READ_DATA
            /\ accepted' = <<>>
            /\ nsent' = 0
            /\ pkt' = NoPacket
            /\ UNCHANGED exited
       ELSE IF mode = NET_I2C_WRITE_DATA /\ data_len # 0
       THEN /\ net_i2c_do_write
            /\ mode' = IF exited' THEN mode ELSE NET_I2C_READ_DATA
            /\ UNCHANGED accepted
       ELSE /\ BADF
            /\ pkt' = NoPacket
            /\ UNCHANGED <<mode, accepted, nsent>>
    /\ UNCHANGED <<data_buf, data_len>>

\* case I2C_FINISH
EventFinish ==
    /\ IF mode = NET_I2C_WRITE_DATA
       THEN /\ net_i2c_do_write
            /\ mode' = IF exited' THEN mode ELSE NET_I2C_IDLE
            /\ data_len' = IF exited' THEN data_len ELSE 0
       ELSE IF mode = NET_I2C_READ_DATA
       THEN /\ BADF
            /\ pkt' = NoPacket
            /\ UNCHANGED <<mode, data_len, nsent>>
       ELSE /\ mode' = NET_I2C_IDLE
            /\ data_len' = 0
            /\ pkt' = NoPacket
            /\ UNCHANGED <<exited, nsent>>
    /\ UNCHANGED <<data_buf, accepted>>

\* case I2C_NACK
EventNack ==
    /\ IF mode = NET_I2C_DONE
       THEN UNCHANGED <<mode, exited>>
       ELSE IF mode = NET_I2C_READ_DATA
       THEN /\ mode' = NET_I2C_DONE
            /\ UNCHANGED exited
       ELSE /\ BADF
            /\ UNCHANGED mode
    /\ pkt' = NoPacket
    /\ UNCHANGED <<data_buf, data_len, accepted, nsent>>

net_i2c_event(event) ==
    /\ ~exited
    /\ CASE event = "I2C_START_SEND" -> EventStartSend
         [] event = "I2C_START_RECV" -> EventStartRecv
         [] event = "I2C_FINISH" -> EventFinish
         [] event = "I2C_NACK" -> EventNack
    /\ rcv' = FALSE
    /\ rop' = [op |-> "event", ev |-> event, from |-> mode, len |-> data_len]
    /\ UNCHANGED tpm

(***************************************************************************)
(* net_i2c_recv.                                                           *)
(***************************************************************************)
net_i2c_recv ==
    /\ ~exited
    /\ IF mode = NET_I2C_READ_DATA
       THEN /\ rcv' = TRUE
            /\ \E size \in qemu_receive_packet : exited' = (size # 1)
       ELSE /\ rcv' = FALSE
            /\ BADF
    /\ pkt' = NoPacket
    /\ rop' = [op |-> "recv", ev |-> "", from |-> mode, len |-> data_len]
    /\ UNCHANGED <<mode, data_buf, data_len, accepted, nsent>>
    /\ UNCHANGED tpm

\* net_i2c_send storing the byte whatever data_len is
net_i2c_send_unchecked(d) ==
    /\ ~exited
    /\ IF mode = NET_I2C_WRITE_DATA
       THEN /\ data_buf' = [data_buf EXCEPT ![data_len] = d]
            /\ data_len' = data_len + 1
            /\ accepted' = Append(accepted, d)
            /\ UNCHANGED exited
       ELSE /\ BADF
            /\ UNCHANGED <<data_buf, data_len, accepted>>
    /\ pkt' = NoPacket
    /\ rcv' = FALSE
    /\ rop' = [op |-> "send", ev |-> "", from |-> mode, len |-> data_len]
    /\ UNCHANGED <<mode, nsent>>
    /\ UNCHANGED tpm

(***************************************************************************)
(* net_i2c_send.                                                           *)
(***************************************************************************)
net_i2c_send(d) ==
    /\ ~exited
    /\ IF mode = NET_I2C_WRITE_DATA
       THEN IF data_len >= DataBufLen
            THEN /\ BADF
                 /\ UNCHANGED <<data_buf, data_len, accepted>>
            ELSE /\ data_buf' = [data_buf EXCEPT ![data_len] = d]
                 /\ data_len' = data_len + 1
                 /\ accepted' = Append(accepted, d)
                 /\ UNCHANGED exited
       ELSE /\ BADF
            /\ UNCHANGED <<data_buf, data_len, accepted>>
    /\ pkt' = NoPacket
    /\ rcv' = FALSE
    /\ rop' = [op |-> "send", ev |-> "", from |-> mode, len |-> data_len]
    /\ UNCHANGED <<mode, nsent>>
    /\ UNCHANGED tpm

Event ==
    \E event \in I2CEvents : net_i2c_event(event)

Send ==
    \E d \in SendBytes : net_i2c_send(d)

NextNetI2C ==
    \/ Event
    \/ net_i2c_recv
    \/ Send

SpecNetI2C == Init /\ [][NextNetI2C]_vars

TypeOK ==
    /\ spi_state \in {STATE_IDLE, STATE_ADDRESS, STATE_DATA}
    /\ first_byte \in 0..255
    /\ data_idx \in 0..255
    /\ addr_idx \in 0..255
    /\ \A i \in 0..(AddrBytesLen - 1) : addr[i] \in 0..255
    /\ \A i \in 0..(DataBytesLen - 1) : data[i] \in 0..255

(***************************************************************************)
(* What the claims speak of.                                               *)
(***************************************************************************)
\* the latest operation called tpm_tis_mmio_read or tpm_tis_mmio_write
Accessed == acc.kind # "none"

\* a2<<16 | a1<<8 | a0 for the bytes a2, a1, a0 in the order they arrived
Assembled(a2, a1, a0) == 65536 * a2 + 256 * a1 + a0

\* bits 6..1 of a header byte
Bits6to1(h) == (h \div 2) % 64

Min(a, b) == IF a < b THEN a ELSE b

\* the latest call delivered the last byte of a complete transaction: one
\* header byte, 3 address bytes and the n >= 1 data bytes the header declares
CompleteTransaction ==
    /\ last_op = "transfer"
    /\ data_expected_size(hdr) >= 1
    /\ tcount = 4 + data_expected_size(hdr)

(***************************************************************************)
(* C1: once the last byte of a complete transaction (header, 3 address     *)
(* bytes, the declared data bytes) has been passed in, the collaborator    *)
(* has been called exactly once in that transaction, by that call, with    *)
(* width min(declared size, 4) and the address assembled from the          *)
(* transaction's 3 address bytes.                                          *)
(***************************************************************************)
C1_SingleAccess ==
    CompleteTransaction =>
        /\ tacc = 1
        /\ Accessed
        /\ acc.size = Min(data_expected_size(hdr), 4)
        /\ AddrHighZero(acc.addr)
        /\ AddrLow24(acc.addr) = Assembled(tb[1], tb[2], tb[3])

(***************************************************************************)
(* C2: between two resets at most one collaborator call is made, and a     *)
(* call is made only by a transfer that starts in STATE_DATA with the data *)
(* count at 0, never by one that starts in STATE_IDLE or STATE_ADDRESS.    *)
(***************************************************************************)
C2_OneAccessPerSelect ==
    [][/\ nacc' <= 1
       /\ acc'.kind # "none" => (spi_state = STATE_DATA /\ data_idx = 0)]_vars

(***************************************************************************)
(* C3: after reset, whatever the point of the transaction it interrupts,   *)
(* no collaborator call was made by it, the decoder is in STATE_IDLE and   *)
(* 3 address bytes are expected after the next header.                     *)
(***************************************************************************)
C3_ResetToIdle ==
    last_op = "reset" =>
        /\ ~Accessed
        /\ spi_state = STATE_IDLE
        /\ addr_idx = 3

(***************************************************************************)
(* C4: in every transaction, also one that follows a completed one with no *)
(* reset in between, the address counter is 3 once the header is taken,    *)
(* and the second collaborator call made with no reset in between uses the *)
(* address assembled from its own transaction's 3 address bytes.           *)
(***************************************************************************)
C4_NoCarryOver ==
    /\ (spi_state = STATE_ADDRESS /\ tcount = 1) => addr_idx = 3
    /\ (Accessed /\ nacc = 2) =>
           /\ Len(tb) = 3
           /\ AddrHighZero(acc.addr)
           /\ AddrLow24(acc.addr) = Assembled(tb[1], tb[2], tb[3])

(***************************************************************************)
(* C5: every collaborator call, of the first transaction and of every      *)
(* later one, uses the address a2<<16 | a1<<8 | a0, where a2, a1, a0 are   *)
(* the three bytes that followed the header, in that order.                *)
(***************************************************************************)
C5_AddressAssembly ==
    Accessed =>
        /\ Len(tb) = 3
        /\ AddrHighZero(acc.addr)
        /\ AddrLow24(acc.addr) = Assembled(tb[1], tb[2], tb[3])

(***************************************************************************)
(* C6: the size taken from header byte h, as the initial data count and as *)
(* the width of the collaborator call, is min(bits 6..1 of h, 4).          *)
(***************************************************************************)
C6_HeaderSize ==
    /\ (spi_state = STATE_ADDRESS /\ tcount = 1) =>
           data_idx = Min(Bits6to1(hdr), 4)
    /\ Accessed => acc.size = Min(Bits6to1(hdr), 4)

(***************************************************************************)
(* C7: the collaborator call of the transaction opened by header byte h is *)
(* a read exactly when bit 7 of h is 1 and a write exactly when it is 0,   *)
(* and one transaction makes at most one call, so never both.              *)
(***************************************************************************)
C7_Direction ==
    /\ tacc <= 1
    /\ Accessed => /\ (acc.kind = "read") <=> (hdr >= 128)
                   /\ (acc.kind = "write") <=> (hdr < 128)

\* a read and a write have each been made: here the read of header 0x82
C7_Witness == acc.kind = "read" /\ hdr = 130 /\ tacc = 1

(***************************************************************************)
(* C8: addr_idx stays in 0..3 and data_idx in 0..4, every store into the   *)
(* address buffer has an index in 0..2 and every store into the data       *)
(* buffer an index in 0..3.                                                *)
(***************************************************************************)
C8_CountersInRange ==
    /\ addr_idx \in 0..3
    /\ data_idx \in 0..DataBytesLen
    /\ st.buf = "addr" => st.idx \in 0..2
    /\ st.buf = "data" => st.idx \in 0..(DataBytesLen - 1)

(***************************************************************************)
(* C9: in a transaction whose header declares a size above 4 (above 4 both *)
(* as bits 5..0 and as bits 6..1, such as 40), every data byte that is     *)
(* stored is stored inside the 4-byte data buffer and the collaborator     *)
(* call has width 4.                                                       *)
(***************************************************************************)
C9_OversizeClamped ==
    (data_expected_size(hdr) > 4 /\ Bits6to1(hdr) > 4 /\ tcount >= 1) =>
        /\ st.buf = "data" => st.idx \in 0..(DataBytesLen - 1)
        /\ Accessed => acc.size = 4

(***************************************************************************)
(* C10: every collaborator call has a width in 1..4 and an address below   *)
(* 2^24.                                                                   *)
(***************************************************************************)
C10_CallArguments ==
    Accessed =>
        /\ acc.size \in 1..4
        /\ AddrHighZero(acc.addr)

\* the current transaction was opened by a header of direction d (1 = read)
\* declaring n data bytes, 1 <= n <= 4, and the latest operation is a
\* transfer call of it
SmallTransaction(d) ==
    /\ last_op = "transfer"
    /\ tcount >= 1
    /\ rwflag(hdr) = d
    /\ data_expected_size(hdr) \in 1..DataBytesLen

(***************************************************************************)
(* C11: in a read transaction of declared size n in 1..4 the register read *)
(* is made exactly once, after the header and the 3 address bytes and not  *)
(* later than transfer call 5, and the decoder is in STATE_IDLE after      *)
(* transfer call 4+n.                                                      *)
(***************************************************************************)
C11_ReadTiming ==
    SmallTransaction(1) =>
        /\ tacc <= 1
        /\ Accessed => (acc.kind = "read" /\ tcount >= 5)
        /\ tcount >= 5 => tacc = 1
        /\ tcount = 4 + data_expected_size(hdr) => spi_state = STATE_IDLE

(***************************************************************************)
(* C12: in a write transaction of declared size n in 1..4 the register     *)
(* write is made by transfer call 4+n of the transaction, and the decoder  *)
(* is in STATE_IDLE when that call returns.                                *)
(***************************************************************************)
C12_WriteTiming ==
    SmallTransaction(0) =>
        /\ Accessed => (acc.kind = "write" /\ tcount = 4 + data_expected_size(hdr))
        /\ tcount = 4 + data_expected_size(hdr) =>
               (Accessed /\ spi_state = STATE_IDLE)

(***************************************************************************)
(* C13: a reset that follows a reset leaves the decoder (state, header,    *)
(* counters, buffers) as the first reset left it, and no reset calls the   *)
(* collaborator.                                                           *)
(***************************************************************************)
C13_ResetIdempotent ==
    [][last_op' = "reset" =>
          /\ acc'.kind = "none"
          /\ last_op = "reset" => decoder' = decoder]_vars

\* two resets in a row have acted on a decoder inside a transaction
C13_Witness ==
    /\ resets = 2
    /\ spi_state = STATE_DATA
    /\ data_idx > 0
    /\ ~Accessed

(***************************************************************************)
(* C14: a transaction whose header declares size 0 makes no collaborator   *)
(* call, and once its 3 address bytes and a data-phase byte have been      *)
(* passed in the decoder does not return to STATE_IDLE by transfer calls.  *)
(***************************************************************************)
C14_ZeroSizeRefused ==
    (tcount >= 1 /\ data_expected_size(hdr) = 0 /\ Bits6to1(hdr) = 0) =>
        /\ tacc = 0
        /\ tcount >= 5 => spi_state # STATE_IDLE

(***************************************************************************)
(* C15: every transfer call returns one reply for the byte passed in, in   *)
(* every decoder state: no call fails to return.                           *)
(***************************************************************************)
C15_EveryCallReplies ==
    last_op = "transfer" => ~crashed

(***************************************************************************)
(* C16: the 3 bytes after the header are stored as address bytes, the      *)
(* decoder is in STATE_DATA when the call that delivers the third of them  *)
(* returns, and the byte after them is handled as a data byte: when the    *)
(* header declares data, it is stored in the data buffer.                  *)
(***************************************************************************)
C16_ThreeAddressBytes ==
    last_op = "transfer" =>
        /\ tcount \in 2..4 => st.buf = "addr"
        /\ tcount = 4 => spi_state = STATE_DATA
        /\ (tcount = 5 /\ data_expected_size(hdr) >= 1) => st.buf = "data"

(***************************************************************************)
(* C17: the value passed to the register write of a write transaction of   *)
(* declared size n in 1..4 has the i-th data byte d_i at weight            *)
(* 256^(n-i), d_1 most significant, and zero in every byte above the n-th. *)
(***************************************************************************)
C17_WriteValue ==
    (SmallTransaction(0) /\ Accessed) =>
        /\ Len(db) = data_expected_size(hdr)
        /\ \A i \in 1..Len(db) : acc.value[data_expected_size(hdr) - i] = db[i]
        /\ \A k \in data_expected_size(hdr)..(DataBytesLen - 1) : acc.value[k] = 0

(***************************************************************************)
(* C18: the header byte held by the decoder is the byte that opened the    *)
(* current transaction, whatever address and data bytes followed it, and   *)
(* the collaborator call has the direction and the width of that byte's    *)
(* fields.                                                                 *)
(***************************************************************************)
C18_HeaderHeld ==
    /\ tcount >= 1 => first_byte = hdr
    /\ Accessed => /\ acc.size = hdr % 64
                   /\ (acc.kind = "read") <=> (hdr \div 128 = 1)

\* the read of header 0x86 was made, after stores that ran past the data
\* buffer
C18_Witness ==
    /\ Accessed
    /\ hdr = 134
    /\ acc.kind = "read"
    /\ acc.size = 6
    /\ tcount >= 12

(***************************************************************************)
(* C19: every value returned by a transfer call is one byte, 0..255.       *)
(***************************************************************************)
C19_ReplyIsByte ==
    r \in 0..255

(***************************************************************************)
(* C20: the decoder is back in STATE_IDLE at the latest 69 transfer calls  *)
(* after a header (3 address bytes, 1 byte that changes phase, up to 63    *)
(* data bytes, 1 terminal byte), and the call that takes it from           *)
(* STATE_DATA to STATE_IDLE makes exactly one collaborator call.           *)
(***************************************************************************)
C20_ReturnsToIdle ==
    last_op = "transfer" =>
        /\ tcount >= 70 => spi_state = STATE_IDLE
        /\ (spi_state = STATE_IDLE /\ tcount >= 1) => (Accessed /\ tacc = 1)

(***************************************************************************)
(* What the claims about the relay speak of.                               *)
(***************************************************************************)
\* the latest relay operation was net_i2c_event with this event
EventWas(event) == rop.op = "event" /\ rop.ev = event

(***************************************************************************)
(* C21: in the relay data_len never exceeds the capacity of data_buf; a    *)
(* net_i2c_send call in write mode with the buffer full, and one in any    *)
(* other mode, leaves data_buf and data_len as they were.                  *)
(***************************************************************************)
C21_BufferBounded ==
    [][/\ data_len <= DataBufLen
       /\ data_len' <= DataBufLen
       /\ (/\ rop'.op = "send"
           /\ (mode # NET_I2C_WRITE_DATA \/ data_len >= DataBufLen))
          => (data_buf' = data_buf /\ data_len' = data_len)]_vars

\* net_i2c_send was called in write mode with the buffer full
C21_Witness ==
    /\ rop.op = "send"
    /\ rop.from = NET_I2C_WRITE_DATA
    /\ rop.len = DataBufLen
    /\ data_len = DataBufLen
    /\ accepted = BufPrefix(data_buf, DataBufLen)

(***************************************************************************)
(* C22: the relay sends a packet only on I2C_FINISH or I2C_START_RECV met  *)
(* in write mode, at most once between leaving idle and returning to it;   *)
(* the packet is the bytes net_i2c_send stored since the relay left idle,  *)
(* in the order they arrived; and after every I2C_FINISH the relay is idle *)
(* with data_len 0.                                                        *)
(***************************************************************************)
C22_SendOnTerminal ==
    /\ pkt.sent => /\ EventWas("I2C_FINISH") \/ EventWas("I2C_START_RECV")
                   /\ rop.from = NET_I2C_WRITE_DATA
                   /\ pkt.bytes = accepted
    /\ nsent <= 1
    /\ EventWas("I2C_FINISH") => (mode = NET_I2C_IDLE /\ data_len = 0)

(***************************************************************************)
(* C23: every packet the relay sends holds at least one byte.              *)
(***************************************************************************)
C23_NoEmptyPacket ==
    pkt.sent => Len(pkt.bytes) >= 1

(***************************************************************************)
(* C24: no relay operation ends the process; in NET_I2C_CONFUSED no packet *)
(* is sent or received; and I2C_FINISH met in any mode leaves the relay    *)
(* idle.                                                                   *)
(***************************************************************************)
C24_NoFatalEvent ==
    /\ ~exited
    /\ rop.from = NET_I2C_CONFUSED => (~pkt.sent /\ ~rcv)
    /\ rop.op = "event" /\ rop.ev = "I2C_FINISH" => mode = NET_I2C_IDLE
====
